---- MODULE Spec2Model ----
(***************************************************************************)
(* The SPL (LRC superset) lyric parser and serializer of karakara,         *)
(* src/src/karakara/spl_parser.py.                                         *)
(*                                                                         *)
(* Text is modelled as a sequence of tokens.  A token is either one        *)
(* character of plain text, or a maximal substring of one of the tag       *)
(* shapes the regular expressions of the module look for:                  *)
(*   [k |-> "T", c]                 one character (c = " " is whitespace)  *)
(*   [k |-> "B", min, sec, tail]    "[min:sec.tail]"                       *)
(*   [k |-> "A", min, sec, tail]    "<min:sec.tail>"                       *)
(*   [k |-> "M", key, value]        "[key:value]"                          *)
(* min and sec are the numbers written, tail the fraction's digit string   *)
(* (<<>> when there is no fraction), key a sequence of letters.  A         *)
(* document is a sequence of lines, a line a sequence of tokens.           *)
(* Python's None is NULL for the optional millisecond fields.              *)
(***************************************************************************)
EXTENDS Integers, Sequences, FiniteSets, TLC

NULL == -1

\* ---------------------------------------------------------------- bounds
MaxSec == 1
MaxTok == 4
MaxLines == 3

\* ------------------------------------------------------ program constants
MinDigitsMax == 4
SecDigitsMax == 2
TailDigitsMax == 6
MetaKeyMin == 2
MetaKeyMax == 16
TailWidth == 3
StrictTailMax == 3

\* ----------------------------------------------------------------- tokens
Txt(c) == [k |-> "T", c |-> c]
BTag(m, s, tl) == [k |-> "B", min |-> m, sec |-> s, tail |-> tl]
ATag(m, s, tl) == [k |-> "A", min |-> m, sec |-> s, tail |-> tl]
MTag(key, val) == [k |-> "M", key |-> key, value |-> val]

RECURSIVE Pow10(_)
Pow10(n) == IF n = 0 THEN 1 ELSE 10 * Pow10(n - 1)

\* the fields of a time tag: \d{1,4} : \d{1,2} ( [:.] \d{1,6} )?
TimeFields(tok) ==
    /\ tok.min < Pow10(MinDigitsMax)
    /\ tok.sec < Pow10(SecDigitsMax)
    /\ Len(tok.tail) <= TailDigitsMax

\* TIMETAG_REGEX: the bracket form
TIMETAG_REGEX(tok) == tok.k = "B" /\ TimeFields(tok)

\* WORD_TIMETAG_REGEX: the angle form
WORD_TIMETAG_REGEX(tok) == tok.k = "A" /\ TimeFields(tok)

\* GENERIC_TIMETAG_REGEX: either form
GENERIC_TIMETAG_REGEX(tok) == TIMETAG_REGEX(tok) \/ WORD_TIMETAG_REGEX(tok)

\* TIMETAG_REGEX_STRICT: the bracket form with a fraction of 1 to
\* StrictTailMax digits
TIMETAG_REGEX_STRICT(tok) ==
    /\ tok.k = "B"
    /\ tok.min < Pow10(MinDigitsMax)
    /\ tok.sec < Pow10(SecDigitsMax)
    /\ Len(tok.tail) >= 1 /\ Len(tok.tail) <= StrictTailMax

\* [a-zA-Z]
Letters ==
    {"a", "b", "c", "d", "e", "f", "g", "h", "i", "j", "k", "l", "m",
     "n", "o", "p", "q", "r", "s", "t", "u", "v", "w", "x", "y", "z",
     "A", "B", "C", "D", "E", "F", "G", "H", "I", "J", "K", "L", "M",
     "N", "O", "P", "Q", "R", "S", "T", "U", "V", "W", "X", "Y", "Z"}

\* METATAG_REGEX, taking a key of any length and any characters
METATAG_REGEX_AnyKey(tok) == tok.k = "M"

\* METATAG_REGEX: [ key : value ] with a key of 2 to 16 letters
METATAG_REGEX(tok) ==
    /\ tok.k = "M"
    /\ Len(tok.key) >= MetaKeyMin /\ Len(tok.key) <= MetaKeyMax
    /\ \A p \in 1..Len(tok.key) : tok.key[p] \in Letters

IsSpace(tok) == tok.k = "T" /\ tok.c = " "

\* ------------------------------------------------------------ str helpers
RECURSIVE lstrip(_)
lstrip(s) ==
    IF s # <<>> /\ IsSpace(Head(s)) THEN lstrip(Tail(s)) ELSE s

RECURSIVE rstrip(_)
rstrip(s) ==
    IF s # <<>> /\ IsSpace(s[Len(s)])
    THEN rstrip(SubSeq(s, 1, Len(s) - 1))
    ELSE s

\* str.strip()
strip(s) == rstrip(lstrip(s))

\* ------------------------------------------------------------- time tags
RECURSIVE DigitsToInt(_)
DigitsToInt(ds) ==
    IF ds = <<>> THEN 0
    ELSE 10 * DigitsToInt(SubSeq(ds, 1, Len(ds) - 1)) + ds[Len(ds)]

\* str.ljust(3, "0")
RECURSIVE ljust(_, _)
ljust(ds, w) == IF Len(ds) >= w THEN ds ELSE ljust(Append(ds, 0), w)

\* match2ms, rounding the fraction to the nearest millisecond
match2msRounds(tok) ==
    LET micro == DigitsToInt(tok.tail) * Pow10(TailDigitsMax - Len(tok.tail))
        ms == IF tok.tail # <<>> THEN (micro + 500) \div 1000 ELSE 0
    IN  ms + tok.sec * 1000 + tok.min * 60 * 1000

\* match2ms: the millisecond value of a matched time tag
match2ms(tok) ==
    LET tail == IF Len(tok.tail) > TailWidth THEN SubSeq(tok.tail, 1, TailWidth)
                ELSE IF Len(tok.tail) < TailWidth THEN ljust(tok.tail, TailWidth)
                ELSE tok.tail
        ms == IF tok.tail # <<>> THEN DigitsToInt(tail) ELSE 0
    IN  ms + tok.sec * 1000 + tok.min * 60 * 1000

\* ms_to_tag: "[mm:ss.fff]" or "<mm:ss.fff>"
ms_to_tag(ms, byword) ==
    LET mi == ms \div 60000
        sec == (ms % 60000) \div 1000
        f == ms % 1000
        tail == << f \div 100, (f \div 10) % 10, f % 10 >>
    IN  IF byword THEN ATag(mi, sec, tail) ELSE BTag(mi, sec, tail)

\* ------------------------------------------------------------ the model
LyricWord(content, start, end) ==
    [content |-> content, start |-> start, end |-> end]

LyricLine(start, end, content, refs) ==
    [start |-> start, end |-> end, content |-> content, reference_lines |-> refs]

\* SplitFrom, leaving out the empty texts
RECURSIVE SplitFromSkipsEmpty(_, _, _)
SplitFromSkipsEmpty(text, cur, acc) ==
    LET sofar == IF cur = <<>> THEN acc ELSE Append(acc, [typ |-> "str", str |-> cur])
    IN  IF text = <<>> THEN sofar
        ELSE IF GENERIC_TIMETAG_REGEX(Head(text))
             THEN SplitFromSkipsEmpty(Tail(text), <<>>,
                                      Append(sofar, [typ |-> "match", m |-> Head(text)]))
             ELSE SplitFromSkipsEmpty(Tail(text), Append(cur, Head(text)), acc)

\* split_to_sequence with the generic time tag pattern: text, match, text, ...
RECURSIVE SplitFrom(_, _, _)
SplitFrom(text, cur, acc) ==
    IF text = <<>> THEN Append(acc, [typ |-> "str", str |-> cur])
    ELSE IF GENERIC_TIMETAG_REGEX(Head(text))
         THEN SplitFrom(Tail(text), <<>>,
                        acc \o << [typ |-> "str", str |-> cur],
                                  [typ |-> "match", m |-> Head(text)] >>)
         ELSE SplitFrom(Tail(text), Append(cur, Head(text)), acc)

split_to_sequence(text) == SplitFrom(text, <<>>, <<>>)

is_match(o) == o.typ = "match"
is_str(o) == o.typ = "str"

RECURSIVE SelectTexts(_)
SelectTexts(seq) ==
    IF seq = <<>> THEN <<>>
    ELSE IF is_str(Head(seq)) /\ ~is_match(Head(seq))
         THEN <<Head(seq).str>> \o SelectTexts(Tail(seq))
         ELSE SelectTexts(Tail(seq))

RECURSIVE SelectTimes(_)
SelectTimes(seq) ==
    IF seq = <<>> THEN <<>>
    ELSE IF is_match(Head(seq))
         THEN <<match2ms(Head(seq).m)>> \o SelectTimes(Tail(seq))
         ELSE SelectTimes(Tail(seq))

RemoveAt(s, i) == SubSeq(s, 1, i - 1) \o SubSeq(s, i + 1, Len(s))

\* Repair, dropping the tag before the one that is out of order
RECURSIVE RepairDropsPrevious(_, _, _, _, _)
RepairDropsPrevious(text_seq, time_seq, i, n, offset) ==
    IF i >= n THEN [text_seq |-> text_seq, time_seq |-> time_seq]
    ELSE LET idx == i - offset
         IN  IF idx > 0 /\ ~(time_seq[idx] < time_seq[idx + 1])
             THEN RepairDropsPrevious(
                      RemoveAt([text_seq EXCEPT ![idx + 1] = @ \o text_seq[idx + 2]], idx + 2),
                      RemoveAt(time_seq, idx), i + 1, n, offset + 1)
             ELSE RepairDropsPrevious(text_seq, time_seq, i + 1, n, offset)

\* Repair, keeping every tag
RepairKeepsAll(text_seq, time_seq, i, n, offset) ==
    [text_seq |-> text_seq, time_seq |-> time_seq]

\* Repair, taking equal neighbours as in order
RECURSIVE RepairAllowsEqual(_, _, _, _, _)
RepairAllowsEqual(text_seq, time_seq, i, n, offset) ==
    IF i >= n THEN [text_seq |-> text_seq, time_seq |-> time_seq]
    ELSE LET idx == i - offset
         IN  IF idx > 0 /\ ~(time_seq[idx] <= time_seq[idx + 1])
             THEN RepairAllowsEqual(
                      RemoveAt([text_seq EXCEPT ![idx + 1] = @ \o text_seq[idx + 2]], idx + 2),
                      RemoveAt(time_seq, idx + 1), i + 1, n, offset + 1)
             ELSE RepairAllowsEqual(text_seq, time_seq, i + 1, n, offset)

\* the ordering repair loop of parse_line; i is the loop's range value
\* (0-based), n the length of time_seq when the loop started
RECURSIVE Repair(_, _, _, _, _)
Repair(text_seq, time_seq, i, n, offset) ==
    IF i >= n THEN [text_seq |-> text_seq, time_seq |-> time_seq]
    ELSE LET idx == i - offset
         IN  IF idx > 0 /\ ~(time_seq[idx] < time_seq[idx + 1])
             THEN Repair(RemoveAt([text_seq EXCEPT ![idx + 1] = @ \o text_seq[idx + 2]],
                                  idx + 2),
                         RemoveAt(time_seq, idx + 1), i + 1, n, offset + 1)
             ELSE Repair(text_seq, time_seq, i + 1, n, offset)

\* BuildWords, never setting the start of a word
BuildWordsWithoutStart(text_seq, time_seq) ==
    [j \in 1..Len(text_seq) |->
        LyricWord(text_seq[j], NULL,
                  IF j < Len(text_seq) THEN time_seq[j] ELSE NULL)]

\* BuildWords, never setting the end of a word
BuildWordsWithoutEnd(text_seq, time_seq) ==
    [j \in 1..Len(text_seq) |->
        LyricWord(text_seq[j],
                  IF 1 < j THEN time_seq[j - 1] ELSE NULL,
                  NULL)]

\* the word list built from the repaired sequences (parse_line, second loop)
BuildWords(text_seq, time_seq) ==
    [j \in 1..Len(text_seq) |->
        LET idx == j - 1
        IN  LyricWord(text_seq[j],
                      IF 0 < idx /\ idx <= Len(text_seq) - 1 THEN time_seq[idx] ELSE NULL,
                      IF 0 <= idx /\ idx < Len(text_seq) - 1 THEN time_seq[idx + 1] ELSE NULL)]

\* PopFirst, keeping an empty first word
PopFirstKeeps(result) == result

\* PopLast, dropping an empty last word that is the only word
PopLastAlways(result) ==
    IF result[Len(result)].content = <<>>
    THEN SubSeq(result, 1, Len(result) - 1)
    ELSE result

\* the two pops at the end of parse_line
PopFirst(result) == IF result[1].content = <<>> THEN Tail(result) ELSE result

PopLast(result) ==
    IF result[Len(result)].content = <<>> /\ Len(result) > 1
    THEN SubSeq(result, 1, Len(result) - 1)
    ELSE result

None == [kind |-> "None", words |-> <<>>]
Words(ws) == [kind |-> "Words", words |-> ws]
Raise(what) == [kind |-> what, words |-> <<>>]

\* parse_line: None, a word list, or a raised LyricsParserError
parse_line(line) ==
    IF strip(line) = <<>> THEN None
    ELSE
    LET seq == split_to_sequence(line)
        text_seq == SelectTexts(seq)
        time_seq == SelectTimes(seq)
    IN  IF seq = <<>> \/ (Len(seq) = 1 /\ seq[1].str = <<>>) THEN None
        ELSE IF Len(seq) % 2 # 1 THEN Raise("LyricsParserError")
        ELSE IF Len(text_seq) + Len(time_seq) # Len(seq) THEN Raise("LyricsParserError")
        ELSE IF Len(text_seq) = 1
             THEN IF time_seq # <<>> THEN Raise("LyricsParserError")
                  ELSE Words(<< LyricWord(text_seq[1], NULL, NULL) >>)
        ELSE IF Len(text_seq) - Len(time_seq) # 1 THEN Raise("LyricsParserError")
        ELSE
        LET r == Repair(text_seq, time_seq, 0, Len(time_seq), 0)
            result == BuildWords(r.text_seq, r.time_seq)
        IN  IF Len(result) < 2 THEN Raise("LyricsParserError")
            ELSE Words(PopLast(PopFirst(result)))

\* split_line_timetags: the leading bracket tags and the rest of the line
RECURSIVE split_line_timetags(_)
split_line_timetags(raw_line) ==
    IF raw_line # <<>> /\ TIMETAG_REGEX(Head(raw_line))
    THEN LET r == split_line_timetags(Tail(raw_line))
         IN  [matches |-> <<Head(raw_line)>> \o r.matches, rest |-> r.rest]
    ELSE [matches |-> <<>>, rest |-> raw_line]

EmptyDict == [key \in {} |-> "x"]

\* dict.update
Update(d, m) ==
    [key \in DOMAIN d \cup DOMAIN m |-> IF key \in DOMAIN m THEN m[key] ELSE d[key]]

\* extract_metadata: every metadata tag found in the line, last value per key
RECURSIVE extract_metadata(_)
extract_metadata(s) ==
    IF s = <<>> THEN EmptyDict
    ELSE LET tok == s[Len(s)]
             before == extract_metadata(SubSeq(s, 1, Len(s) - 1))
         IN  IF METATAG_REGEX(tok)
             THEN Update(before, [key \in {tok.key} |-> tok.value])
             ELSE before

\* ------------------------------------------------------------ parse_file
\* the locals of parse_file; exc names the exception that ended the call
State(md, pool, tag, exc) ==
    [metadata |-> md, line_pool |-> pool, last_tag |-> tag, exc |-> exc]

NoExc == "none"

\* line_pool[t] = v
Put(pool, t, v) == [key \in DOMAIN pool \cup {t} |-> IF key = t THEN v ELSE pool[key]]

\* [match2ms(m) for m in matches]
RECURSIVE TimeTags(_)
TimeTags(matches) ==
    IF matches = <<>> THEN <<>>
    ELSE <<match2ms(Head(matches))>> \o TimeTags(Tail(matches))

\* MetadataBranch, also breaking the reference chain
MetadataBranchResets(st, m) == [st EXCEPT !.metadata = Update(@, m), !.last_tag = NULL]

\* the branch taken by a metadata line
MetadataBranch(st, m) == [st EXCEPT !.metadata = Update(@, m)]

\* EmptyBranch, the placeholder taking the place of an entry
EmptyBranchOverwrites(st, time_tags) ==
    [st EXCEPT !.last_tag = NULL,
               !.line_pool =
                   IF time_tags # <<>>
                   THEN Put(@, time_tags[1],
                            LyricLine(time_tags[1], NULL, << LyricWord(<<>>, NULL, NULL) >>, <<>>))
                   ELSE @]

\* the branch taken when parse_line returned nothing
EmptyBranch(st, time_tags) ==
    [st EXCEPT !.last_tag = NULL,
               !.line_pool =
                   IF time_tags # <<>> /\ time_tags[1] \notin DOMAIN @
                   THEN Put(@, time_tags[1],
                            LyricLine(time_tags[1], NULL, << LyricWord(<<>>, NULL, NULL) >>, <<>>))
                   ELSE @]

\* TagFreeBranch, raising on an orphan line instead of discarding it
TagFreeBranchRaises(st, line) ==
    IF st.last_tag = NULL \/ st.last_tag \notin DOMAIN st.line_pool
    THEN [st EXCEPT !.exc = "KeyError"]
    ELSE [st EXCEPT !.line_pool[st.last_tag].reference_lines = Append(@, line)]

\* the branch taken by a line without leading time tags
TagFreeBranch(st, line) ==
    IF st.last_tag = NULL THEN st
    ELSE IF st.last_tag \notin DOMAIN st.line_pool THEN [st EXCEPT !.exc = "KeyError"]
    ELSE [st EXCEPT !.line_pool[st.last_tag].reference_lines = Append(@, line)]

\* TagStep, never skipping a tag
TagStepNeverSkips(pool, tag, line) ==
    IF tag \in DOMAIN pool
    THEN [pool EXCEPT ![tag].reference_lines = Append(@, line)]
    ELSE Put(pool, tag, LyricLine(NULL, NULL, line, <<>>))

\* TagStep, the later line taking the place of the content
TagStepReplaces(pool, tag, line) ==
    LET word_start == line[1].start
    IN  IF word_start # NULL /\ word_start < tag THEN pool
        ELSE IF tag \in DOMAIN pool
             THEN [pool EXCEPT ![tag].reference_lines = Append(@, pool[tag].content),
                               ![tag].content = line]
             ELSE Put(pool, tag, LyricLine(NULL, NULL, line, <<>>))

\* one iteration of the loop over the leading time tags
TagStep(pool, tag, line) ==
    LET word_start == line[1].start
    IN  IF word_start # NULL /\ word_start < tag THEN pool
        ELSE IF tag \in DOMAIN pool
             THEN [pool EXCEPT ![tag].reference_lines = Append(@, line)]
             ELSE Put(pool, tag, LyricLine(NULL, NULL, line, <<>>))

RECURSIVE TagLoop(_, _, _)
TagLoop(pool, time_tags, line) ==
    IF time_tags = <<>> THEN pool
    ELSE TagLoop(TagStep(pool, Head(time_tags), line), Tail(time_tags), line)

\* TaggedBranch, the cursor following the first of several tags
TaggedBranchKeepsCursor(st, time_tags, line) ==
    [st EXCEPT !.line_pool = TagLoop(@, time_tags, line),
               !.last_tag = time_tags[1]]

\* the branch taken by a line with leading time tags and words
TaggedBranch(st, time_tags, line) ==
    [st EXCEPT !.line_pool = TagLoop(@, time_tags, line),
               !.last_tag = IF Len(time_tags) = 1 THEN time_tags[1] ELSE NULL]

\* the body of the loop of parse_file for one raw line
LoopBody(st, raw_line) ==
    LET line_str == strip(raw_line)
        m == extract_metadata(line_str)
        sp == split_line_timetags(line_str)
        time_tags == TimeTags(sp.matches)
        line == parse_line(sp.rest)
    IN  IF m # EmptyDict THEN MetadataBranch(st, m)
        ELSE IF line.kind = "None" THEN EmptyBranch(st, time_tags)
        ELSE IF line.kind # "Words" THEN [st EXCEPT !.exc = line.kind]
        ELSE IF time_tags = <<>> THEN TagFreeBranch(st, line.words)
        ELSE TaggedBranch(st, time_tags, line.words)

\* lrc.strip().splitlines(): the text without its leading and trailing
\* whitespace, cut at the line ends
RECURSIVE DropBlankHead(_)
DropBlankHead(doc) ==
    IF doc = <<>> THEN <<>>
    ELSE IF strip(Head(doc)) = <<>> THEN DropBlankHead(Tail(doc))
    ELSE <<lstrip(Head(doc))>> \o Tail(doc)

RECURSIVE DropBlankTail(_)
DropBlankTail(doc) ==
    IF doc = <<>> THEN <<>>
    ELSE IF strip(doc[Len(doc)]) = <<>> THEN DropBlankTail(SubSeq(doc, 1, Len(doc) - 1))
    ELSE SubSeq(doc, 1, Len(doc) - 1) \o <<rstrip(doc[Len(doc)])>>

StripSplitLines(doc) == DropBlankTail(DropBlankHead(doc))

\* Sorted, in descending order
RECURSIVE SortedDescending(_)
SortedDescending(keys) ==
    IF keys = {} THEN <<>>
    ELSE LET hi == CHOOSE x \in keys : \A y \in keys : x >= y
         IN  <<hi>> \o SortedDescending(keys \ {hi})

\* sorted(...): the keys of the pool in ascending order
RECURSIVE Sorted(_)
Sorted(keys) ==
    IF keys = {} THEN <<>>
    ELSE LET lo == CHOOSE x \in keys : \A y \in keys : x <= y
         IN  <<lo>> \o Sorted(keys \ {lo})

\* FinalLine, also giving the first word the start of the line
FinalLineFillsWordStart(start, line) ==
    LET n == Len(line.content)
        lw == line.content[n]
        moved == IF lw.end # NULL
                 THEN [line EXCEPT !.start = start, !.end = lw.end, !.content[n].end = NULL]
                 ELSE [line EXCEPT !.start = start]
    IN  IF moved.content[1].start = NULL
        THEN [moved EXCEPT !.content[1].start = start]
        ELSE moved

\* FinalLine, leaving the end on the last word
FinalLineKeepsWordEnd(start, line) == [line EXCEPT !.start = start]

\* the finalization of one pool entry
FinalLine(start, line) ==
    LET n == Len(line.content)
        lw == line.content[n]
    IN  IF lw.end # NULL
        THEN [line EXCEPT !.start = start, !.end = lw.end, !.content[n].end = NULL]
        ELSE [line EXCEPT !.start = start]

Lyrics(lines, md) == [lines |-> lines, metadata |-> md]

\* Finalize, the entries made by one line sharing their words: the end
\* moved to the first of them is gone for the others
FinalizeSharedWords(st) ==
    LET keys == Sorted(DOMAIN st.line_pool)
        entry(j) == st.line_pool[keys[j]]
        last(j) == Len(entry(j).content)
    IN  Lyrics([j \in 1..Len(keys) |->
                   IF \E h \in 1..(j - 1) : entry(h).content = entry(j).content
                   THEN [entry(j) EXCEPT !.start = keys[j], !.content[last(j)].end = NULL]
                   ELSE FinalLine(keys[j], entry(j))],
               st.metadata)

\* the tail of parse_file: the sorted, finalized document
Finalize(st) ==
    LET keys == Sorted(DOMAIN st.line_pool)
    IN  Lyrics([j \in 1..Len(keys) |-> FinalLine(keys[j], st.line_pool[keys[j]])],
               st.metadata)

RECURSIVE RunLoop(_, _)
RunLoop(st, lines) ==
    IF lines = <<>> \/ st.exc # NoExc THEN st
    ELSE RunLoop(LoopBody(st, Head(lines)), Tail(lines))

Returned(value) == [exc |-> NoExc, value |-> value]
Raised(exc) == [exc |-> exc, value |-> Lyrics(<<>>, EmptyDict)]

\* parse_file as a function of the text
parse_file(lrc) ==
    LET st == RunLoop(State(EmptyDict, EmptyDict, NULL, NoExc), StripSplitLines(lrc))
    IN  IF st.exc # NoExc THEN Raised(st.exc) ELSE Returned(Finalize(st))

\* ------------------------------------------------------ the pattern cache
\* validate_timetag_strict: the time of s if s is one strict time tag
validate_timetag_strict(s) ==
    IF Len(s) = 1 /\ TIMETAG_REGEX_STRICT(s[1]) THEN match2ms(s[1]) ELSE NULL

\* the pattern texts compile_regex is called on while the module is loaded
StartupPatterns ==
    <<"TIMETAG_REGEX", "WORD_TIMETAG_REGEX", "TIMETAG_REGEX_STRICT", "METATAG_REGEX",
      "GENERIC_TIMETAG_REGEX">>

\* compile_regex: the cache after the call on the pattern text r; a text
\* not in the cache is compiled, the compiled patterns being numbered
compile_regex(c, r) ==
    IF r \in DOMAIN c THEN c ELSE Put(c, r, Cardinality(DOMAIN c) + 1)

\* the cache after compile_regex on the texts rs, one after the other
RECURSIVE CompileAll(_, _)
CompileAll(c, rs) ==
    IF rs = <<>> THEN c ELSE CompileAll(compile_regex(c, Head(rs)), Tail(rs))

\* the cache when the module is loaded
StartupCache == CompileAll(EmptyDict, StartupPatterns)

\* the pattern texts the functions call compile_regex on
SplitToSequenceCompiles == <<"GENERIC_TIMETAG_REGEX">>
ParseLineCompiles(l) == IF strip(l) = <<>> THEN <<>> ELSE SplitToSequenceCompiles
SplitLineTimetagsCompiles == <<"^TIMETAG_REGEX">>
ExtractMetadataCompiles == <<"METATAG_REGEX">>
ValidateTimetagStrictCompiles == <<"^TIMETAG_REGEX_STRICT$">>

\* those of the body of the loop of parse_file for one raw line
LoopCompiles(raw_line) ==
    LET line_str == strip(raw_line)
    IN  ExtractMetadataCompiles
        \o (IF extract_metadata(line_str) # EmptyDict THEN <<>>
            ELSE SplitLineTimetagsCompiles
                 \o ParseLineCompiles(split_line_timetags(line_str).rest))

\* the cache after the loop of parse_file has run on lines from st
RECURSIVE RunCompiles(_, _, _)
RunCompiles(c, st, lines) ==
    IF lines = <<>> \/ st.exc # NoExc THEN c
    ELSE RunCompiles(CompileAll(c, LoopCompiles(Head(lines))),
                     LoopBody(st, Head(lines)), Tail(lines))

\* the cache after parse_file(lrc)
ParseFileCompiles(c, lrc) ==
    RunCompiles(c, State(EmptyDict, EmptyDict, NULL, NoExc), StripSplitLines(lrc))

\* construct_line, every word that has a start getting its start tag
RECURSIVE ConstructFromAlwaysStarts(_, _)
ConstructFromAlwaysStarts(line, idx) ==
    IF idx > Len(line) THEN <<>>
    ELSE LET word == line[idx]
             suffix == IF word.end = NULL THEN <<>> ELSE <<ms_to_tag(word.end, TRUE)>>
             prefix == IF word.start # NULL
                       THEN <<ms_to_tag(word.start, TRUE)>>
                       ELSE <<>>
         IN  prefix \o word.content \o suffix \o ConstructFromAlwaysStarts(line, idx + 1)

\* ------------------------------------------------------------ serializer
RECURSIVE ConstructFrom(_, _)
ConstructFrom(line, idx) ==
    IF idx > Len(line) THEN <<>>
    ELSE LET word == line[idx]
             suffix == IF word.end = NULL THEN <<>> ELSE <<ms_to_tag(word.end, TRUE)>>
             prefix == IF word.start # NULL
                          /\ ((idx > 1 /\ line[idx - 1].end # word.start) \/ idx = 1)
                       THEN <<ms_to_tag(word.start, TRUE)>>
                       ELSE <<>>
         IN  prefix \o word.content \o suffix \o ConstructFrom(line, idx + 1)

\* construct_line: the text of a word list
construct_line(line) == ConstructFrom(line, 1)

RECURSIVE RefLines(_, _)
RefLines(line_start, refs) ==
    IF refs = <<>> THEN <<>>
    ELSE << <<ms_to_tag(line_start, FALSE)>> \o construct_line(Head(refs)) >>
         \o RefLines(line_start, Tail(refs))

\* the text lines construct_lrc writes for one line of the document
LineText(line) ==
    IF line.start = NULL THEN << <<>> >>
    ELSE << <<>>,
            <<ms_to_tag(line.start, FALSE)>> \o construct_line(line.content)
               \o (IF line.end # NULL /\ line.end # 0
                   THEN <<ms_to_tag(line.end, FALSE)>> ELSE <<>>) >>
         \o RefLines(line.start, line.reference_lines)

RECURSIVE MetaLines(_)
MetaLines(md) ==
    IF DOMAIN md = {} THEN <<>>
    ELSE LET mk == CHOOSE key \in DOMAIN md : TRUE
         IN  << <<MTag(mk, md[mk])>> >>
             \o MetaLines([key \in DOMAIN md \ {mk} |-> md[key]])

RECURSIVE LyricLines(_)
LyricLines(lines) ==
    IF lines = <<>> THEN <<>>
    ELSE LineText(Head(lines)) \o LyricLines(Tail(lines))

\* construct_lrc: the text of a document, as its lines
construct_lrc(lyrics) == MetaLines(lyrics.metadata) \o LyricLines(lyrics.lines)

\* ------------------------------------------------------------- the state
VARIABLES
    lrc,        \* the text given to parse_file, as its lines
    idx,        \* the number of lines of lrc.strip().splitlines() consumed
    metadata,   \* parse_file: metadata
    line_pool,  \* parse_file: line_pool
    last_tag,   \* parse_file: last_tag
    pc,         \* "loop", "returned", "raised", "serialized", "reparsed"
    exc,        \* the exception parse_file raised, NoExc if none
    lyrics,     \* the value parse_file returned
    text,       \* construct_lrc(lyrics), as its lines
    again,      \* the outcome of parse_file(text)
    arg,        \* the text a function of the module is called on
    ret,        \* what the call returned
    REGEX_PATTERN_CACHE  \* _REGEX_PATTERN_CACHE: pattern text to compiled pattern

vars == <<lrc, idx, metadata, line_pool, last_tag, pc, exc, lyrics, text, again,
          arg, ret, REGEX_PATTERN_CACHE>>

\* ---------------------------------------------------------------- inputs
Secs == 0..MaxSec

\* the tokens of lyric lines: bracket tags, angle tags, text
Alphabet ==
    {BTag(0, t, <<>>) : t \in Secs} \cup {ATag(0, t, <<>>) : t \in Secs}
        \cup {Txt("a"), Txt("b")}

\* the tokens of files: a bracket tag, text, whitespace, metadata tags
FileAlphabet ==
    {BTag(0, MaxSec, <<>>), Txt("a"), Txt(" "),
     MTag(<<"a", "r">>, "x"), MTag(<<"a", "r">>, "y")}

\* the ways to cut k tokens into n lines: the lengths of the lines
Cuts(n, k) == {lens \in [1..n -> 0..k] : k = 0 \/ n > 0}

RECURSIVE Sum(_)
Sum(lens) == IF lens = <<>> THEN 0 ELSE Head(lens) + Sum(Tail(lens))

\* the text toks cut into lines of the lengths lens
RECURSIVE Cut(_, _)
Cut(toks, lens) ==
    IF lens = <<>> THEN <<>>
    ELSE <<SubSeq(toks, 1, Head(lens))>>
         \o Cut(SubSeq(toks, Head(lens) + 1, Len(toks)), Tail(lens))

\* lrc is a document of at most MaxLines lines and MaxTok tokens over alphabet
InputOver(alphabet) ==
    \E n \in 0..MaxLines, k \in 0..MaxTok :
        \E lens \in Cuts(n, k) :
            /\ Sum(lens) = k
            /\ \E toks \in [1..k -> alphabet] : lrc = Cut(toks, lens)

St == State(metadata, line_pool, last_tag, exc)

InputLines == StripSplitLines(lrc)

\* the line the loop is about to process
raw_line == InputLines[idx + 1]
line_str == strip(raw_line)
time_tags == TimeTags(split_line_timetags(line_str).matches)
line == parse_line(split_line_timetags(line_str).rest)
InLoop == pc = "loop" /\ idx < Len(InputLines)

Init ==
    /\ (InputOver(Alphabet) \/ InputOver(FileAlphabet))
    /\ idx = 0
    /\ metadata = EmptyDict
    /\ line_pool = EmptyDict
    /\ last_tag = NULL
    /\ pc = "loop"
    /\ exc = NoExc
    /\ lyrics = Lyrics(<<>>, EmptyDict)
    /\ text = <<>>
    /\ again = Raised(NoExc)
    /\ arg = <<>>
    /\ ret = <<>>
    /\ REGEX_PATTERN_CACHE = StartupCache

\* the loop body has run on raw_line and left st
Iterate(st) ==
    /\ metadata' = st.metadata
    /\ line_pool' = st.line_pool
    /\ last_tag' = st.last_tag
    /\ exc' = st.exc
    /\ pc' = IF st.exc # NoExc THEN "raised" ELSE "loop"
    /\ idx' = idx + 1
    /\ REGEX_PATTERN_CACHE' = CompileAll(REGEX_PATTERN_CACHE, LoopCompiles(raw_line))
    /\ UNCHANGED <<lrc, lyrics, text, again, arg, ret>>

\* a line in which a metadata tag is found
MetadataLine ==
    /\ InLoop
    /\ extract_metadata(line_str) # EmptyDict
    /\ Iterate(LoopBody(St, raw_line))

\* a line parse_line makes nothing of
EmptyLine ==
    /\ InLoop
    /\ extract_metadata(line_str) = EmptyDict
    /\ line.kind # "Words"
    /\ Iterate(LoopBody(St, raw_line))

\* a line of words without a leading time tag
TagFreeLine ==
    /\ InLoop
    /\ extract_metadata(line_str) = EmptyDict
    /\ line.kind = "Words"
    /\ time_tags = <<>>
    /\ Iterate(LoopBody(St, raw_line))

\* a line of words with leading time tags
TaggedLine ==
    /\ InLoop
    /\ extract_metadata(line_str) = EmptyDict
    /\ line.kind = "Words"
    /\ time_tags # <<>>
    /\ Iterate(LoopBody(St, raw_line))

\* the loop is over: sort, finalize, return
Return ==
    /\ pc = "loop"
    /\ idx = Len(InputLines)
    /\ lyrics' = Finalize(St)
    /\ pc' = "returned"
    /\ UNCHANGED <<lrc, idx, metadata, line_pool, last_tag, exc, text, again, arg, ret,
                   REGEX_PATTERN_CACHE>>

\* construct_lrc on the returned document
Serialize ==
    /\ pc = "returned"
    /\ text' = construct_lrc(lyrics)
    /\ pc' = "serialized"
    /\ UNCHANGED <<lrc, idx, metadata, line_pool, last_tag, exc, lyrics, again, arg, ret,
                   REGEX_PATTERN_CACHE>>

\* parse_file on the serialized text
Reparse ==
    /\ pc = "serialized"
    /\ again' = parse_file(text)
    /\ pc' = "reparsed"
    /\ REGEX_PATTERN_CACHE' = ParseFileCompiles(REGEX_PATTERN_CACHE, text)
    /\ UNCHANGED <<lrc, idx, metadata, line_pool, last_tag, exc, lyrics, text, arg, ret>>

Next ==
    \/ MetadataLine
    \/ EmptyLine
    \/ TagFreeLine
    \/ TaggedLine
    \/ Return
    \/ Serialize
    \/ Reparse

Spec == Init /\ [][Next]_vars

\* ------------------------------------------------- calls of the functions
\* bounds of the texts the functions are called on
MaxTime == 3
MaxTags == 4
MaxTextTags == 3
MaxTextTime == 2

\* time tags of both forms with the values 0..n seconds
TagsUpTo(n) == {BTag(0, t, <<>>) : t \in 0..n} \cup {ATag(0, t, <<>>) : t \in 0..n}

\* the text texts[1] tags[1] texts[2] ... tags[n] texts[n + 1]
RECURSIVE Weave(_, _)
Weave(tags, texts) ==
    IF tags = <<>> THEN texts[1]
    ELSE texts[1] \o <<Head(tags)>> \o Weave(Tail(tags), Tail(texts))

\* arg is a line of at most n time tags from tagset around texts from textset
LineOver(n, tagset, textset) ==
    \E h \in 0..n :
        \E tags \in [1..h -> tagset], texts \in [1..(h + 1) -> textset] :
            arg = Weave(tags, texts)

\* the texts between the tags of timed lines
WordTexts == {<<>>, <<Txt("a")>>}

\* the texts between the tags of lines with blanks and different words
MixedTexts == {<<>>, <<Txt("a")>>, <<Txt("b")>>, <<Txt(" ")>>}

\* the digits and fields of the time tags given to match2ms
DigitSet == {0, 5, 9}
MinSet == {0, 1, 9999}
SecSet == {0, 59, 99}

\* arg is one time tag, with or without a fraction
OneTag ==
    \E m \in MinSet, s \in SecSet, h \in 0..TailDigitsMax :
        \E tl \in [1..h -> DigitSet] :
            arg \in {<<BTag(m, s, tl)>>, <<ATag(m, s, tl)>>}

\* n times the character c
Rep(c, n) == [p \in 1..n |-> c]

\* keys at and around the limits of METATAG_REGEX
KeySet ==
    {Rep("a", n) : n \in {MetaKeyMin - 1, MetaKeyMin, 5, 6, MetaKeyMax, MetaKeyMax + 1}}
        \cup {<<"a", "1">>, <<"T", "i">>}

\* arg is a line with one bracketed key and value, alone or after something
OneKey ==
    \E key \in KeySet :
        \E pre \in {<<>>, <<BTag(0, 1, <<>>)>>, <<Txt("a")>>,
                     <<MTag(<<"a", "r">>, "y")>>, <<MTag(Rep("a", MetaKeyMax + 1), "y")>>} :
            arg = pre \o <<MTag(key, "x")>>

\* no call has been made, and parse_file's own variables are at rest
CallsStart ==
    /\ ret = <<>>
    /\ pc = "call"
    /\ lrc = <<>>
    /\ idx = 0
    /\ metadata = EmptyDict
    /\ line_pool = EmptyDict
    /\ last_tag = NULL
    /\ exc = NoExc
    /\ lyrics = Lyrics(<<>>, EmptyDict)
    /\ text = <<>>
    /\ again = Raised(NoExc)
    /\ REGEX_PATTERN_CACHE = StartupCache

\* calls on lines of words and blanks, on single time tags, on metadata tags
InitCalls ==
    /\ \/ LineOver(MaxTextTags, TagsUpTo(MaxTextTime), MixedTexts)
       \/ OneTag
       \/ OneKey
    /\ CallsStart

\* calls on lines of up to MaxTags time tags
InitTimed ==
    /\ LineOver(MaxTags, TagsUpTo(MaxTime), WordTexts)
    /\ CallsStart

\* the call fn(arg) has returned value and left the cache c
Call(fn, value, c) ==
    /\ pc = "call"
    /\ ret' = value
    /\ pc' = fn
    /\ REGEX_PATTERN_CACHE' = c
    /\ UNCHANGED <<lrc, idx, metadata, line_pool, last_tag, exc, lyrics, text,
                   again, arg>>

\* match2ms on the match of a time tag pattern that is the whole of arg
CallMatch2ms ==
    /\ Len(arg) = 1 /\ GENERIC_TIMETAG_REGEX(arg[1])
    /\ Call("match2ms", match2ms(arg[1]), REGEX_PATTERN_CACHE)

\* split_to_sequence(GENERIC_TIMETAG_REGEX, arg)
CallSplitToSequence ==
    Call("split_to_sequence", split_to_sequence(arg),
         CompileAll(REGEX_PATTERN_CACHE, SplitToSequenceCompiles))

\* parse_line(arg)
CallParseLine ==
    Call("parse_line", parse_line(arg),
         CompileAll(REGEX_PATTERN_CACHE, ParseLineCompiles(arg)))

\* parse_file(arg), arg being a text of one line
CallParseFile ==
    Call("parse_file", parse_file(<<arg>>),
         ParseFileCompiles(REGEX_PATTERN_CACHE, <<arg>>))

NextCalls ==
    \/ CallMatch2ms
    \/ CallSplitToSequence
    \/ CallParseLine
    \/ CallParseFile

SpecCalls == InitCalls /\ [][NextCalls]_vars

SpecTimed == InitTimed /\ [][NextCalls]_vars

\* ------------------------------------------- the serializer, call by call
MaxWords == 3
MaxDocLines == 2

\* word lists of up to MaxWords words, each with or without text, start, end
TimeSet == {NULL, 0, 1000}
WordSet == {LyricWord(c, b, e) : c \in WordTexts, b \in TimeSet, e \in TimeSet}
WordLists(n, words) == UNION {[1..m -> words] : m \in 0..n}

\* documents of up to MaxDocLines lines, each with or without start, end,
\* word, reference line, and with or without a metadata entry
DocWordSet == {LyricWord(<<Txt("a")>>, b, e) : b \in {NULL, 0}, e \in {NULL, 1000}}
DocLineSet ==
    {LyricLine(b, e, c, r) : b \in TimeSet, e \in TimeSet,
                             c \in WordLists(1, DocWordSet),
                             r \in {<<>>, << <<LyricWord(<<Txt("b")>>, NULL, NULL)>> >>}}
DocSet ==
    {Lyrics(l, md) : l \in WordLists(MaxDocLines, DocLineSet),
                     md \in {EmptyDict, Put(EmptyDict, <<"a", "r">>, "x")}}

\* no call has been made: arg is a word list or a document
InitSerial ==
    /\ \/ pc = "words" /\ arg \in WordLists(MaxWords, WordSet)
       \/ pc = "document" /\ arg \in DocSet
    /\ ret = <<>>
    /\ lrc = <<>>
    /\ idx = 0
    /\ metadata = EmptyDict
    /\ line_pool = EmptyDict
    /\ last_tag = NULL
    /\ exc = NoExc
    /\ lyrics = Lyrics(<<>>, EmptyDict)
    /\ text = <<>>
    /\ again = Raised(NoExc)
    /\ REGEX_PATTERN_CACHE = StartupCache

\* construct_line(arg)
CallConstructLine ==
    /\ pc = "words"
    /\ ret' = construct_line(arg)
    /\ pc' = "construct_line"
    /\ UNCHANGED <<lrc, idx, metadata, line_pool, last_tag, exc, lyrics, text,
                   again, arg, REGEX_PATTERN_CACHE>>

\* construct_lrc(arg)
CallConstructLrc ==
    /\ pc = "document"
    /\ ret' = construct_lrc(arg)
    /\ pc' = "construct_lrc"
    /\ UNCHANGED <<lrc, idx, metadata, line_pool, last_tag, exc, lyrics, text,
                   again, arg, REGEX_PATTERN_CACHE>>

NextSerial ==
    \/ CallConstructLine
    \/ CallConstructLrc

SpecSerial == InitSerial /\ [][NextSerial]_vars

\* ------------------------------------------ the cache, call after call
\* the texts the functions are called on
CacheTexts ==
    {<<>>, <<Txt(" ")>>, <<Txt("a")>>, <<MTag(<<"a", "r">>, "x")>>}
    \cup {<<BTag(0, t, f)>> \o rest :
              t \in Secs, f \in {<<>>, <<5>>, <<0, 0, 0>>, <<0, 0, 0, 0>>},
              rest \in {<<>>, <<Txt("a")>>}}

\* the module is loaded and no call has been made
InitCache ==
    /\ arg = <<>>
    /\ CallsStart

\* the call fn(s) has returned value and left the cache c
CacheCall(fn, s, value, c) ==
    /\ arg' = s
    /\ ret' = value
    /\ pc' = fn
    /\ REGEX_PATTERN_CACHE' = c
    /\ UNCHANGED <<lrc, idx, metadata, line_pool, last_tag, exc, lyrics, text, again>>

AgainParseFile ==
    \E s \in CacheTexts :
        CacheCall("parse_file", s, parse_file(<<s>>),
                  ParseFileCompiles(REGEX_PATTERN_CACHE, <<s>>))

AgainParseLine ==
    \E s \in CacheTexts :
        CacheCall("parse_line", s, parse_line(s),
                  CompileAll(REGEX_PATTERN_CACHE, ParseLineCompiles(s)))

AgainSplitLineTimetags ==
    \E s \in CacheTexts :
        CacheCall("split_line_timetags", s, split_line_timetags(s),
                  CompileAll(REGEX_PATTERN_CACHE, SplitLineTimetagsCompiles))

AgainValidateTimetagStrict ==
    \E s \in CacheTexts :
        CacheCall("validate_timetag_strict", s, validate_timetag_strict(s),
                  CompileAll(REGEX_PATTERN_CACHE, ValidateTimetagStrictCompiles))

NextCache ==
    \/ AgainParseFile
    \/ AgainParseLine
    \/ AgainSplitLineTimetags
    \/ AgainValidateTimetagStrict

SpecCache == InitCache /\ [][NextCache]_vars

\* ------------------------------------------------------------ properties
\* the locals of parse_file after its loop has consumed the first i lines
InitialState == State(EmptyDict, EmptyDict, NULL, NoExc)
After(i) == RunLoop(InitialState, SubSeq(InputLines, 1, i))

HasReturned == pc \in {"returned", "serialized", "reparsed"}

\* how the loop body reads a raw line l
MetaOf(l) == extract_metadata(strip(l))
TagsOf(l) == TimeTags(split_line_timetags(strip(l)).matches)
BodyOf(l) == split_line_timetags(strip(l)).rest
WordsOf(l) == parse_line(BodyOf(l))

IsText(s) == \A p \in 1..Len(s) : s[p].k = "T"
EndsWithTag(s) == s # <<>> /\ GENERIC_TIMETAG_REGEX(s[Len(s)])
NumLines == Len(InputLines)

\* a line with one leading time tag followed by plain text
SingleTagText(l) == Len(TagsOf(l)) = 1 /\ IsText(BodyOf(l)) /\ strip(BodyOf(l)) # <<>>

\* a line of words without a leading time tag and without a metadata tag
TagFree(l) == MetaOf(l) = EmptyDict /\ TagsOf(l) = <<>> /\ WordsOf(l).kind = "Words"

\* the input line that made the pool entry at key t
Creator(t) ==
    InputLines[CHOOSE i \in 1..NumLines :
                  /\ t \in DOMAIN After(i).line_pool
                  /\ t \notin DOMAIN After(i - 1).line_pool]

\* C1: round trip: when parse_file succeeds on X,
\* parse_file(construct_lrc(parse_file(X))) is parse_file(X)
C1_RoundTrip == pc = "reparsed" => again = Returned(lyrics)

\* C2: parse_file never ends with an exception, whatever the lines are
C2_Total == pc # "raised" /\ exc = NoExc

\* C3: every returned line has its pool key as its start, and the lines
\* are in strictly ascending order of start
C3_SortedStarts ==
    HasReturned =>
        /\ Len(lyrics.lines) = Cardinality(DOMAIN line_pool)
        /\ \A j \in 1..Len(lyrics.lines) :
              /\ lyrics.lines[j].start # NULL
              /\ lyrics.lines[j].start \in DOMAIN line_pool
              /\ lyrics.lines[j].reference_lines
                    = line_pool[lyrics.lines[j].start].reference_lines
        /\ \A j \in 1..(Len(lyrics.lines) - 1) :
              lyrics.lines[j].start < lyrics.lines[j + 1].start

\* two lines were returned and the later one came first in the input
C3_Witness ==
    /\ HasReturned
    /\ Len(lyrics.lines) = 2
    /\ NumLines = 2
    /\ TagsOf(InputLines[1]) = <<lyrics.lines[2].start>>
    /\ TagsOf(InputLines[2]) = <<lyrics.lines[1].start>>

LastWordEndIsNull(l) == l.content[Len(l.content)].end = NULL

InBounds(t, l) == t # NULL => (t >= l.start /\ (l.end # NULL => t <= l.end))

\* C5: in every returned line each word's start and end, when set, lie
\* between the line's start and the line's end
C5_WordsWithinLine ==
    HasReturned =>
        \A j \in 1..Len(lyrics.lines) :
            \A w \in 1..Len(lyrics.lines[j].content) :
                /\ InBounds(lyrics.lines[j].content[w].start, lyrics.lines[j])
                /\ InBounds(lyrics.lines[j].content[w].end, lyrics.lines[j])

\* lines i < j carry the same single leading tag and different plain
\* texts, and i is the first line of the input that carries the tag
SameTagPair(i, j) ==
    /\ i < j
    /\ SingleTagText(InputLines[i]) /\ SingleTagText(InputLines[j])
    /\ TagsOf(InputLines[i]) = TagsOf(InputLines[j])
    /\ BodyOf(InputLines[i]) # BodyOf(InputLines[j])
    /\ \A h \in 1..(i - 1) :
          \A p \in 1..Len(TagsOf(InputLines[h])) :
              TagsOf(InputLines[h])[p] # TagsOf(InputLines[i])[1]

TextLine(body) == << LyricWord(body, NULL, NULL) >>

\* C6: of two lines with the same single leading tag T and different
\* texts, the first is the content of the one line returned with start T
\* and the later one is among its reference lines
C6_FirstIsContent ==
    HasReturned =>
        \A i, j \in 1..NumLines :
            SameTagPair(i, j) =>
                LET T == TagsOf(InputLines[i])[1]
                    at == {h \in 1..Len(lyrics.lines) : lyrics.lines[h].start = T}
                IN  /\ Cardinality(at) = 1
                    /\ \A h \in at :
                          /\ lyrics.lines[h].content = TextLine(BodyOf(InputLines[i]))
                          /\ \E r \in 1..Len(lyrics.lines[h].reference_lines) :
                                lyrics.lines[h].reference_lines[r]
                                    = TextLine(BodyOf(InputLines[j]))

\* such a pair of lines was parsed and the document returned
C6_Witness == HasReturned /\ \E i, j \in 1..NumLines : SameTagPair(i, j)

\* the loop is about to process a line of words without leading tags
AtTagFree == InLoop /\ TagFree(raw_line)

\* C7: a tag-free line processed while the cursor is set is appended to
\* the reference lines of the pool entry at the cursor, nothing else changes
C7_Attach ==
    [][(AtTagFree /\ last_tag # NULL)
          => /\ last_tag \in DOMAIN line_pool
             /\ line_pool' = [line_pool EXCEPT ![last_tag].reference_lines =
                                                   Append(@, line.words)]
             /\ UNCHANGED <<last_tag, metadata>>
             /\ pc' = "loop"]_vars

\* C8: a tag-free line processed while the cursor is null changes neither
\* the pool, the metadata nor the cursor, and the loop goes on
C8_OrphanDiscarded ==
    [][(AtTagFree /\ last_tag = NULL)
          => /\ UNCHANGED <<line_pool, metadata, last_tag>>
             /\ pc' = "loop" /\ exc' = NoExc
             /\ idx' = idx + 1]_vars

\* an orphan line has just been discarded and the pool is not empty
C8_Witness ==
    /\ pc = "loop" /\ idx >= 2
    /\ TagFree(InputLines[idx])
    /\ After(idx - 1).last_tag = NULL
    /\ line_pool # EmptyDict

IsBlank(l) == strip(l) = <<>>
OnlyTags(l) == ~IsBlank(l) /\ \A p \in 1..Len(strip(l)) : GENERIC_TIMETAG_REGEX(strip(l)[p])
OnlyLeadingTags(l) == ~IsBlank(l) /\ BodyOf(l) = <<>>
SeveralTags(l) == MetaOf(l) = EmptyDict /\ Len(TagsOf(l)) >= 2

\* C9 as claimed: after a line with two or more leading time tags, a blank
\* line or a line of tags only, the cursor is null
C9_Original ==
    [][(InLoop /\ (SeveralTags(raw_line) \/ IsBlank(raw_line) \/ OnlyTags(raw_line)))
          => last_tag' = NULL]_vars

\* C9 as amended: after a line with two or more leading time tags that is
\* not consumed as metadata, a blank line or a line of leading bracket tags
\* only, the cursor is null, and a tag-free line that follows it directly
\* leaves the pool as it is
C9_CursorReset ==
    [][/\ (InLoop /\ (SeveralTags(raw_line) \/ IsBlank(raw_line)
                        \/ OnlyLeadingTags(raw_line)))
            => last_tag' = NULL
       /\ (/\ AtTagFree /\ idx >= 1
           /\ (SeveralTags(InputLines[idx]) \/ IsBlank(InputLines[idx])
                 \/ OnlyLeadingTags(InputLines[idx])))
            => line_pool' = line_pool]_vars

\* a line of words with several leading tags was processed, and the
\* tag-free line after it has been left out of the pool
C9_Witness ==
    /\ pc = "loop" /\ idx = 2
    /\ SeveralTags(InputLines[1])
    /\ WordsOf(InputLines[1]).kind = "Words"
    /\ TagFree(InputLines[2])
    /\ last_tag = NULL
    /\ line_pool # EmptyDict
    /\ \A t \in DOMAIN line_pool : line_pool[t].reference_lines = <<>>

\* the value the last metadata tag of key k in the text s gives it
LastValue(s, k) ==
    s[CHOOSE p \in 1..Len(s) :
         /\ METATAG_REGEX(s[p]) /\ s[p].key = k
         /\ \A q \in (p + 1)..Len(s) : ~(METATAG_REGEX(s[q]) /\ s[q].key = k)].value

MetaKeys(s) == {s[p].key : p \in {q \in 1..Len(s) : METATAG_REGEX(s[q])}}

\* C10: a line in which metadata is found only updates the metadata map,
\* the last value written for a key winning; the pool and the cursor stay,
\* so a tag-free line after it still attaches to the line before it
C10_MetadataOnly ==
    [][/\ (InLoop /\ MetaKeys(line_str) # {})
            => /\ UNCHANGED <<line_pool, last_tag>>
               /\ pc' = "loop"
               /\ DOMAIN metadata' = DOMAIN metadata \cup MetaKeys(line_str)
               /\ \A k \in MetaKeys(line_str) : metadata'[k] = LastValue(line_str, k)
               /\ \A k \in DOMAIN metadata \ MetaKeys(line_str) : metadata'[k] = metadata[k]
       /\ (/\ AtTagFree /\ idx >= 2
           /\ MetaKeys(strip(InputLines[idx])) # {}
           /\ SingleTagText(InputLines[idx - 1]))
            => LET T == TagsOf(InputLines[idx - 1])[1]
               IN  /\ T \in DOMAIN line_pool
                   /\ line_pool'[T].reference_lines
                         = Append(line_pool[T].reference_lines, line.words)]_vars

\* a tag-free line has been attached to the tagged line before the
\* metadata line that precedes it
C10_Witness ==
    /\ pc = "loop" /\ idx = 3
    /\ SingleTagText(InputLines[1])
    /\ MetaKeys(strip(InputLines[2])) # {}
    /\ TagFree(InputLines[3])
    /\ line_pool[TagsOf(InputLines[1])[1]].reference_lines = <<WordsOf(InputLines[3]).words>>

\* the text starts with a time tag or lyric text and holds a metadata tag
MetaInside(s) == MetaKeys(s) # {} /\ ~METATAG_REGEX(s[1])

\* the word list l is the content or a reference line of the entry at t
ReachesPool(pool, t, l) ==
    /\ t \in DOMAIN pool
    /\ \/ pool[t].content = l
       \/ \E r \in 1..Len(pool[t].reference_lines) : pool[t].reference_lines[r] = l

\* C11: a line with leading time tags or lyric text that merely contains a
\* metadata tag is not consumed as metadata: the metadata map stays as it
\* is, and the words of a line with a leading time tag reach the pool
C11_EntireLine ==
    [][(InLoop /\ MetaInside(line_str))
          => /\ metadata' = metadata
             /\ (line.kind = "Words" /\ time_tags # <<>> /\ line.words[1].start = NULL)
                   => \A p \in 1..Len(time_tags) :
                         ReachesPool(line_pool', time_tags[p], line.words)]_vars

\* the keys parse_file returned for arg
ReturnedKeys == DOMAIN ret.value.metadata

\* the bracketed keys of arg that are longer than n
LongKeys(n) == {arg[p].key : p \in {q \in 1..Len(arg) : arg[q].k = "M" /\ Len(arg[q].key) > n}}

KeysWithin(lo, hi) ==
    pc = "parse_file" =>
        /\ ret.exc = NoExc
        /\ \A key \in ReturnedKeys :
              /\ Len(key) >= lo /\ Len(key) <= hi
              /\ \A p \in 1..Len(key) : key[p] \in Letters
        /\ LongKeys(hi) \cap ReturnedKeys = {}

\* C12 as claimed: every metadata key parse_file returns consists of
\* letters only and has 2 to 5 of them; a key longer than 5 is not accepted
C12_Original == KeysWithin(2, 5)

\* C12 as amended: every metadata key parse_file returns consists of
\* letters only and has 2 to 16 of them; a key longer than 16 is not accepted
C12_KeyLength == KeysWithin(2, 16)

\* parse_file was given keys of 16 and of 17 letters, took the one and
\* left the other
C12_Witness ==
    /\ pc = "parse_file"
    /\ \E key \in ReturnedKeys : Len(key) = 16
    /\ LongKeys(16) # {}

\* the digit string f read as a decimal fraction of a second, in whole
\* milliseconds: the first three digits of f padded with zeros on the right
Millis(f) == (DigitsToInt(f) * Pow10(6 - Len(f))) \div 1000

\* C13: match2ms on minutes m, seconds s and a fraction f of 1 to 6 digits
\* returns m * 60000 + s * 1000 + F, F the first three digits of f padded
\* with zeros on the right (.5 is 500, .999999 is 999), and F = 0 when
\* there is no fraction
C13_Fraction ==
    pc = "match2ms" =>
        LET m == arg[1].min
            sec == arg[1].sec
            f == arg[1].tail
            F == ret - m * 60000 - sec * 1000
        IN  /\ F = IF f = <<>> THEN 0 ELSE Millis(f)
            /\ F >= 0 /\ F <= 999
            /\ f = <<5>> => F = 500
            /\ f = <<5, 9>> => F = 590
            /\ f = <<9, 9, 9, 9, 9, 9>> => F = 999
            /\ f = <<0, 0, 0, 9>> => F = 0

\* match2ms was called on 1:59.999999 and cut the fraction to 999
C13_Witness ==
    /\ pc = "match2ms"
    /\ arg[1].min = 1 /\ arg[1].sec = 59
    /\ arg[1].tail = <<9, 9, 9, 9, 9, 9>>
    /\ ret = 119999

\* the document is the one line [T]text, text not empty and without tags
SingleTaggedText ==
    /\ Len(lrc) = 1
    /\ Len(lrc[1]) >= 2
    /\ TIMETAG_REGEX(lrc[1][1])
    /\ IsText(Tail(lrc[1]))

\* parse_file returns, for the one line [T]text, the one line that starts
\* at T, has no end and no reference lines, and whose content is word
OneLineOf(word) ==
    SingleTaggedText =>
        /\ pc # "raised"
        /\ HasReturned =>
              lyrics.lines = << LyricLine(match2ms(lrc[1][1]), NULL, <<word>>, <<>>) >>

TagPos(s) == {p \in 1..Len(s) : GENERIC_TIMETAG_REGEX(s[p])}
TimeAt(s, p) == match2ms(s[p])

\* the tags of s at the places ps are each followed by text, and their
\* values increase strictly
Spaced(s, ps) == \A p \in ps : p = Len(s) \/ p + 1 \notin TagPos(s)
Increasing(s, ps) == \A p, q \in ps : p < q => TimeAt(s, p) < TimeAt(s, q)

\* the words between the tags of s at the places ps (in ascending order):
\* the text between two tags, from the one to the other
WordsBetween(s, ps) ==
    [i \in 1..(Len(ps) - 1) |->
        LyricWord(SubSeq(s, ps[i] + 1, ps[i + 1] - 1), TimeAt(s, ps[i]), TimeAt(s, ps[i + 1]))]

\* s is tag t0, text x1, tag t1, ..., text xn, tag tn with t0 < ... < tn
Timeline(s) ==
    /\ Cardinality(TagPos(s)) >= 2
    /\ 1 \in TagPos(s) /\ Len(s) \in TagPos(s)
    /\ Spaced(s, TagPos(s))
    /\ Increasing(s, TagPos(s))

\* the text s with the tag at place p written in the other form
Flip(s, p) ==
    [s EXCEPT ![p] = IF @.k = "B" THEN ATag(@.min, @.sec, @.tail)
                     ELSE BTag(@.min, @.sec, @.tail)]

\* C15: parse_line on a whole line t0 x1 t1 ... xn tn with increasing tags
\* of either form returns the n words xi from t(i-1) to ti, and the form of
\* a tag makes no difference
C15_Timeline ==
    (pc = "parse_line" /\ Timeline(arg)) =>
        /\ ret = Words(WordsBetween(arg, Sorted(TagPos(arg))))
        /\ \A p \in TagPos(arg) : parse_line(Flip(arg, p)) = ret

\* parse_line has returned three contiguous words for a line whose tags
\* are of both forms
C15_Witness ==
    /\ pc = "parse_line"
    /\ Timeline(arg)
    /\ Len(arg) = 7
    /\ arg[3].k = "B" /\ arg[5].k = "A"
    /\ Len(ret.words) = 3
    /\ ret.words[1].end = ret.words[2].start
    /\ ret.words[2].end = ret.words[3].start

\* s is [t0]<t1>x1<t2>x2...xn[tn+1] with t0 <= t1 < t2 < ... < tn+1
Delayed(s) ==
    /\ Len(s) >= 4
    /\ TIMETAG_REGEX(s[1]) /\ TIMETAG_REGEX(s[Len(s)])
    /\ \A p \in TagPos(s) \ {1, Len(s)} : WORD_TIMETAG_REGEX(s[p])
    /\ 2 \in TagPos(s)
    /\ Spaced(s, TagPos(s) \ {1})
    /\ Increasing(s, TagPos(s) \ {1})
    /\ TimeAt(s, 1) <= TimeAt(s, 2)

\* the line parse_file makes of a delayed line: the words from <t1> on, the
\* end of the last one moved to the line
DelayedLine(s) ==
    LET ws == WordsBetween(s, Sorted(TagPos(s) \ {1}))
        n == Len(ws)
    IN  LyricLine(TimeAt(s, 1), TimeAt(s, Len(s)), [ws EXCEPT ![n].end = NULL], <<>>)

\* C16: parse_file on the line [t0]<t1>x1<t2>x2...xn[tn+1] returns one
\* line from t0 to tn+1 with the n words x1 .. xn, the first starting at
\* t1; no empty word stands before x1
C16_DelayedStart ==
    (pc = "parse_file" /\ Delayed(arg)) =>
        /\ ret = Returned(Lyrics(<<DelayedLine(arg)>>, EmptyDict))
        /\ ret.value.lines[1].content[1].content # <<>>
        /\ ret.value.lines[1].content[1].start = TimeAt(arg, 2)

\* parse_file has returned the line of [t0]<t1>x1<t2>x2[t3] with t0 < t1
C16_Witness ==
    /\ pc = "parse_file"
    /\ Delayed(arg)
    /\ Len(arg) = 6
    /\ TimeAt(arg, 1) < TimeAt(arg, 2)
    /\ Len(ret.value.lines) = 1
    /\ Len(ret.value.lines[1].content) = 2
    /\ ret.value.lines[1].start < ret.value.lines[1].content[1].start

\* s is [t0]A<t1>B<t2> with t1 <= t0 < t2, A and B one character each
OutOfOrder(s) ==
    /\ Len(s) = 5
    /\ TIMETAG_REGEX(s[1]) /\ WORD_TIMETAG_REGEX(s[3]) /\ WORD_TIMETAG_REGEX(s[5])
    /\ TagPos(s) = {1, 3, 5}
    /\ TimeAt(s, 3) <= TimeAt(s, 1)
    /\ TimeAt(s, 1) < TimeAt(s, 5)

\* C17: parse_line on [t0]A<t1>B<t2> with t1 <= t0 < t2 returns the one
\* word AB from t0 to t2, and raises nothing
C17_Repair ==
    (pc = "parse_line" /\ OutOfOrder(arg)) =>
        ret = Words(<< LyricWord(<<arg[2], arg[4]>>, TimeAt(arg, 1), TimeAt(arg, 5)) >>)

\* parse_line has merged two different texts around a tag that is earlier
\* than the tag of the line
C17_Witness ==
    /\ pc = "parse_line"
    /\ OutOfOrder(arg)
    /\ TimeAt(arg, 3) < TimeAt(arg, 1)
    /\ arg[2] # arg[4] /\ ~IsSpace(arg[2]) /\ ~IsSpace(arg[4])
    /\ Len(ret.words) = 1
    /\ ret.words[1].content = <<arg[2], arg[4]>>

\* C18: in every word list parse_line returns, a word with start and end
\* has start < end, and of two consecutive words the end of the first is
\* not later than the start of the second
C18_Monotone ==
    (pc = "parse_line" /\ ret.kind = "Words") =>
        /\ \A j \in 1..Len(ret.words) :
              (ret.words[j].start # NULL /\ ret.words[j].end # NULL)
                  => ret.words[j].start < ret.words[j].end
        /\ \A j \in 1..(Len(ret.words) - 1) :
              (ret.words[j].end # NULL /\ ret.words[j + 1].start # NULL)
                  => ret.words[j].end <= ret.words[j + 1].start

\* parse_line has returned two contiguous words for a line of four tags of
\* which two neighbours are equal
C18_Witness ==
    /\ pc = "parse_line"
    /\ Cardinality(TagPos(arg)) = 4
    /\ \E p, q \in TagPos(arg) :
          /\ p < q /\ TimeAt(arg, p) = TimeAt(arg, q)
          /\ \A h \in TagPos(arg) : ~(p < h /\ h < q)
    /\ ret.kind = "Words"
    /\ Len(ret.words) = 2
    /\ ret.words[1].end # NULL /\ ret.words[1].end = ret.words[2].start

\* C20: split_to_sequence with the generic time tag pattern returns a
\* sequence of odd length that starts and ends with a text and alternates
\* text, tag, text, ...; there is one text more than there are tags
C20_Alternation ==
    pc = "split_to_sequence" =>
        /\ Len(ret) % 2 = 1
        /\ \A j \in 1..Len(ret) :
              IF j % 2 = 1 THEN is_str(ret[j]) /\ ~is_match(ret[j])
              ELSE is_match(ret[j]) /\ ~is_str(ret[j])
        /\ Cardinality({j \in 1..Len(ret) : is_str(ret[j])})
              = Cardinality({j \in 1..Len(ret) : is_match(ret[j])}) + 1
        /\ Cardinality({j \in 1..Len(ret) : is_match(ret[j])}) = Cardinality(TagPos(arg))

\* split_to_sequence has returned empty texts around and between two tags
\* that follow each other directly
C20_Witness ==
    /\ pc = "split_to_sequence"
    /\ Len(arg) = 2 /\ TagPos(arg) = {1, 2}
    /\ Len(ret) = 5
    /\ ret[1].str = <<>> /\ ret[3].str = <<>> /\ ret[5].str = <<>>

\* the bounds of a word, a missing start taken as minus infinity and a
\* missing end as plus infinity
StartOf(w) == IF w.start = NULL THEN -1 ELSE w.start
EndOf(w) == IF w.end = NULL THEN Pow10(9) ELSE w.end

\* prev.start < prev.end <= cur.start < cur.end
InOrder(prev, cur) ==
    /\ StartOf(prev) < EndOf(prev)
    /\ EndOf(prev) <= StartOf(cur)
    /\ StartOf(cur) < EndOf(cur)

\* the greatest of the bounds of prev and cur that are defined
MaxBound(prev, cur) ==
    LET bs == {prev.start, prev.end, cur.start, cur.end} \ {NULL}
    IN  CHOOSE b \in bs : \A c \in bs : c <= b

\* the scan of the word list as the claim words it: a word out of order
\* with the word before it is merged into that word
RECURSIVE MergeScan(_, _)
MergeScan(done, rest) ==
    IF rest = <<>> THEN done
    ELSE LET prev == done[Len(done)]
             cur == Head(rest)
         IN  IF InOrder(prev, cur) THEN MergeScan(Append(done, cur), Tail(rest))
             ELSE MergeScan([done EXCEPT ![Len(done)] =
                                [prev EXCEPT !.content = @ \o cur.content,
                                             !.end = MaxBound(prev, cur)]],
                            Tail(rest))

\* an empty first word and an empty last word are left out, not the only word
TrimEnds(ws) ==
    LET ws1 == IF ws[1].content = <<>> THEN Tail(ws) ELSE ws
    IN  IF Len(ws1) > 1 /\ ws1[Len(ws1)].content = <<>>
        THEN SubSeq(ws1, 1, Len(ws1) - 1)
        ELSE ws1

\* the words built from the texts and tags of s as they stand
BuiltWords(s) ==
    BuildWords(SelectTexts(split_to_sequence(s)), SelectTimes(split_to_sequence(s)))

\* C19 as claimed: the words parse_line returns for a line with tags are
\* those of the built word list after merging every word that is out of
\* order with the word before it into that word, the end of which becomes
\* the greatest of the defined bounds of the two
C19_Original ==
    (pc = "parse_line" /\ TagPos(arg) # {} /\ ret.kind = "Words") =>
        ret.words = TrimEnds(MergeScan(<<BuiltWords(arg)[1]>>, Tail(BuiltWords(arg))))

\* the tags of s that are later than every tag before them
KeptPos(s) == {p \in TagPos(s) : \A q \in TagPos(s) : q < p => TimeAt(s, q) < TimeAt(s, p)}

\* the text of s from place a to place b without the tags in it
RECURSIVE TextBetween(_, _, _)
TextBetween(s, a, b) ==
    IF a > b THEN <<>>
    ELSE (IF a \in TagPos(s) THEN <<>> ELSE <<s[a]>>) \o TextBetween(s, a + 1, b)

\* the words of s cut at the kept tags only
WordsAtKept(s) ==
    LET ps == Sorted(KeptPos(s))
        n == Len(ps)
    IN  [j \in 1..(n + 1) |->
            LyricWord(TextBetween(s, IF j = 1 THEN 1 ELSE ps[j - 1] + 1,
                                     IF j = n + 1 THEN Len(s) ELSE ps[j] - 1),
                      IF j = 1 THEN NULL ELSE TimeAt(s, ps[j - 1]),
                      IF j = n + 1 THEN NULL ELSE TimeAt(s, ps[j]))]

\* the line x0 [10] x1 [30] x2 [20] x3 [40] x4 in seconds 0, 2, 1, 3
Example19(s) ==
    /\ Len(s) = 9
    /\ TagPos(s) = {2, 4, 6, 8}
    /\ TimeAt(s, 2) = 0 /\ TimeAt(s, 4) = 2000 /\ TimeAt(s, 6) = 1000 /\ TimeAt(s, 8) = 3000

\* C19 as amended: a tag that is not later than every tag before it is
\* dropped and the texts on its two sides are joined; the words parse_line
\* returns are those cut at the remaining tags, each from one remaining tag
\* to the next; tags 10, 30, 20, 40 around x0 .. x4 give x0 (to 10),
\* x1 (10 to 30), x2x3 (30 to 40), x4 (from 40)
C19_DropTag ==
    (pc = "parse_line" /\ TagPos(arg) # {}) =>
        /\ ret = Words(TrimEnds(WordsAtKept(arg)))
        /\ Example19(arg) =>
              ret.words = << LyricWord(<<arg[1]>>, NULL, 0),
                             LyricWord(<<arg[3]>>, 0, 2000),
                             LyricWord(<<arg[5], arg[7]>>, 2000, 3000),
                             LyricWord(<<arg[9]>>, 3000, NULL) >>

\* parse_line has returned the four words of the line with the tags
\* 0, 2, 1, 3 s around five texts
C19_Witness ==
    /\ pc = "parse_line"
    /\ Example19(arg)
    /\ Len(ret.words) = 4
    /\ Len(ret.words[3].content) = 2

\* the loop is about to process a line of words with leading time tags
AtTagged ==
    /\ InLoop
    /\ MetaOf(raw_line) = EmptyDict
    /\ line.kind = "Words"
    /\ time_tags # <<>>

\* how often t is among the tags, and n times the word list l
Count(tags, t) == Cardinality({p \in 1..Len(tags) : tags[p] = t})
Copies(n, l) == [q \in 1..n |-> l]

\* C21: of the leading tags of a line whose first word starts at ws, a tag
\* later than ws leaves the pool as it is at that tag, and every other tag
\* makes an entry with the words or appends the words to the entry's
\* reference lines
C21_SkipLateTags ==
    [][(AtTagged /\ line.words[1].start # NULL) =>
          \A p \in 1..Len(time_tags) :
              LET t == time_tags[p]
                  k == Count(time_tags, t)
              IN  IF line.words[1].start < t
                  THEN /\ t \in DOMAIN line_pool' <=> t \in DOMAIN line_pool
                       /\ t \in DOMAIN line_pool => line_pool'[t] = line_pool[t]
                  ELSE /\ t \in DOMAIN line_pool'
                       /\ line_pool'[t] =
                             IF t \in DOMAIN line_pool
                             THEN [line_pool[t] EXCEPT
                                      !.reference_lines = @ \o Copies(k, line.words)]
                             ELSE LyricLine(NULL, NULL, line.words,
                                            Copies(k - 1, line.words))]_vars

\* the first line had two leading tags, one later than its first word's
\* start and one not: the pool has an entry at the second only
C21_Witness ==
    /\ pc = "loop" /\ idx = 1
    /\ MetaOf(InputLines[1]) = EmptyDict
    /\ WordsOf(InputLines[1]).kind = "Words"
    /\ Len(TagsOf(InputLines[1])) = 2
    /\ WordsOf(InputLines[1]).words[1].start # NULL
    /\ \E p, q \in 1..2 :
          /\ WordsOf(InputLines[1]).words[1].start < TagsOf(InputLines[1])[p]
          /\ TagsOf(InputLines[1])[q] <= WordsOf(InputLines[1]).words[1].start
          /\ DOMAIN line_pool = {TagsOf(InputLines[1])[q]}

\* the loop is about to process a line with leading tags and no words
AtTagsOnly ==
    /\ InLoop
    /\ MetaOf(raw_line) = EmptyDict
    /\ line.kind = "None"
    /\ time_tags # <<>>

\* the placeholder line of a blank at T
Placeholder(T) == LyricLine(T, NULL, << LyricWord(<<>>, NULL, NULL) >>, <<>>)

\* C22: a line with leading tags and no words makes a placeholder line
\* (one empty word, no end, no reference lines) exactly when it has one
\* leading tag T and the pool has no entry at T; otherwise the pool stays
C22_Placeholder ==
    [][AtTagsOnly =>
          line_pool' = IF Len(time_tags) = 1 /\ time_tags[1] \notin DOMAIN line_pool
                       THEN Put(line_pool, time_tags[1], Placeholder(time_tags[1]))
                       ELSE line_pool]_vars

IsPrefix(a, b) == Len(a) <= Len(b) /\ SubSeq(b, 1, Len(a)) = a

\* C23: an entry of the pool is never removed, its content, start and end
\* are never replaced, its reference lines only grow at the end; so the
\* number of keys never decreases
C23_PoolMonotone ==
    [][/\ \A k \in DOMAIN line_pool :
             /\ k \in DOMAIN line_pool'
             /\ line_pool'[k].content = line_pool[k].content
             /\ line_pool'[k].start = line_pool[k].start
             /\ line_pool'[k].end = line_pool[k].end
             /\ IsPrefix(line_pool[k].reference_lines, line_pool'[k].reference_lines)
       /\ Cardinality(DOMAIN line_pool') >= Cardinality(DOMAIN line_pool)]_vars

\* the second line has added a reference line to the entry the first made,
\* and the third has added a key
C23_Witness ==
    /\ pc = "loop" /\ idx = 3
    /\ \E k \in DOMAIN After(1).line_pool :
          /\ After(1).line_pool[k].reference_lines = <<>>
          /\ After(2).line_pool[k].reference_lines # <<>>
          /\ line_pool[k].content = After(1).line_pool[k].content
    /\ Cardinality(DOMAIN line_pool) > Cardinality(DOMAIN After(2).line_pool)

\* line i has several distinct leading tags, none in the pool yet and none
\* later than the start of its first word
Independent(i) ==
    LET l == InputLines[i]
        tags == TagsOf(l)
    IN  /\ MetaOf(l) = EmptyDict
        /\ WordsOf(l).kind = "Words"
        /\ Len(tags) >= 2
        /\ \A p, q \in 1..Len(tags) : p # q => tags[p] # tags[q]
        /\ \A p \in 1..Len(tags) :
              /\ tags[p] \notin DOMAIN After(i - 1).line_pool
              /\ WordsOf(l).words[1].start # NULL => tags[p] <= WordsOf(l).words[1].start

\* C24: a line with N distinct leading tags, none in the pool and none
\* later than its first word's start, gives N returned lines, one per tag,
\* each with the words of the line and each with the end the line's
\* trailing tag gives
C24_Independence ==
    HasReturned =>
        \A i \in 1..NumLines :
            Independent(i) =>
                LET ws == WordsOf(InputLines[i]).words
                    n == Len(ws)
                IN  \A p \in 1..Len(TagsOf(InputLines[i])) :
                        \E j \in 1..Len(lyrics.lines) :
                            /\ lyrics.lines[j].start = TagsOf(InputLines[i])[p]
                            /\ lyrics.lines[j].content = [ws EXCEPT ![n].end = NULL]
                            /\ lyrics.lines[j].end = ws[n].end

\* a line with two leading tags and a trailing tag was returned as two
\* lines that both end at the trailing tag
C24_Witness ==
    /\ HasReturned
    /\ NumLines = 1
    /\ Independent(1)
    /\ Len(lyrics.lines) = 2
    /\ lyrics.lines[1].end # NULL
    /\ lyrics.lines[2].end = lyrics.lines[1].end
    /\ lyrics.lines[2].content = lyrics.lines[1].content

\* C28: while parse_file processes lines, a cursor that is not null is a
\* key of the pool
C28_CursorValid == last_tag # NULL => last_tag \in DOMAIN line_pool

\* the text of a list of texts, one after the other
RECURSIVE Flat(_)
Flat(parts) == IF parts = <<>> THEN <<>> ELSE Head(parts) \o Flat(Tail(parts))

\* word i of ws gets a start tag, an end tag
StartTagged(ws, i) ==
    /\ ws[i].start # NULL
    /\ i = 1 \/ ws[i].start # ws[i - 1].end
EndTagged(ws, i) == ws[i].end # NULL

\* what is written for word i of ws
Piece(ws, i) ==
    (IF StartTagged(ws, i) THEN <<ATag(ws[i].start \div 60000, (ws[i].start % 60000) \div 1000,
                                       <<(ws[i].start % 1000) \div 100,
                                         (ws[i].start % 100) \div 10,
                                         ws[i].start % 10>>)>>
     ELSE <<>>)
    \o ws[i].content
    \o (IF EndTagged(ws, i) THEN <<ATag(ws[i].end \div 60000, (ws[i].end % 60000) \div 1000,
                                        <<(ws[i].end % 1000) \div 100,
                                          (ws[i].end % 100) \div 10,
                                          ws[i].end % 10>>)>>
        ELSE <<>>)

\* C25: construct_line writes, word by word, a start tag exactly when the
\* word has a start and is the first or starts elsewhere than the word
\* before it ends, then the content, then an end tag exactly when the word
\* has an end; so two contiguous words have one tag between them
C25_ConstructLine ==
    pc = "construct_line" =>
        /\ ret = Flat([i \in 1..Len(arg) |-> Piece(arg, i)])
        /\ \A i \in 1..(Len(arg) - 1) :
              (arg[i].end # NULL /\ arg[i].end = arg[i + 1].start) =>
                  Len(Piece(arg, i) \o Piece(arg, i + 1))
                      = Len(arg[i].content) + Len(arg[i + 1].content) + 1
                        + (IF StartTagged(arg, i) THEN 1 ELSE 0)
                        + (IF EndTagged(arg, i + 1) THEN 1 ELSE 0)

\* two contiguous words were written with the one tag between them, and a
\* third that starts elsewhere with its own start tag
C25_Witness ==
    /\ pc = "construct_line"
    /\ Len(arg) = 3
    /\ arg[1].start = NULL /\ arg[1].end = 1000
    /\ arg[2].start = 1000 /\ arg[2].end = 1000
    /\ arg[3].start = 0 /\ arg[3].end = NULL
    /\ \A i \in 1..3 : arg[i].content = <<Txt("a")>>
    /\ ret = <<Txt("a"), ATag(0, 1, <<0, 0, 0>>), Txt("a"), ATag(0, 1, <<0, 0, 0>>),
               ATag(0, 0, <<0, 0, 0>>), Txt("a")>>

\* the number of text lines construct_lrc writes for a line
TextLines(l) == IF l.start = NULL THEN 1 ELSE 2 + Len(l.reference_lines)

\* the number of text lines written before those of line j
RECURSIVE LinesBefore(_, _)
LinesBefore(doc, j) ==
    IF j = 1 THEN Cardinality(DOMAIN doc.metadata)
    ELSE LinesBefore(doc, j - 1) + TextLines(doc.lines[j - 1])

\* C26: for a line with a start and an end, the end being 0 ms or not,
\* construct_lrc writes the line's end tag after the words
C26_LineEndTag ==
    pc = "construct_lrc" =>
        \A j \in 1..Len(arg.lines) :
            (arg.lines[j].start # NULL /\ arg.lines[j].end # NULL) =>
                LET written == ret[LinesBefore(arg, j) + 2]
                IN  /\ written # <<>>
                    /\ written[Len(written)].k = "B"
                    /\ match2ms(written[Len(written)]) = arg.lines[j].end
                    /\ Len(written) = Len(construct_line(arg.lines[j].content)) + 2

\* C27: after the module is loaded no call of parse_file, parse_line,
\* split_line_timetags or validate_timetag_strict adds an entry to the
\* cache, replaces one or removes one, so a pattern text has the same
\* compiled pattern throughout
C27_CacheFrozen ==
    [][/\ DOMAIN REGEX_PATTERN_CACHE' = DOMAIN REGEX_PATTERN_CACHE
       /\ \A r \in DOMAIN REGEX_PATTERN_CACHE :
             REGEX_PATTERN_CACHE'[r] = REGEX_PATTERN_CACHE[r]]_vars

\* the repair loop of parse_line from its iteration i on: at every
\* iteration text_seq is one longer than time_seq, time_seq is not empty,
\* and the places the iteration reads and writes exist
RECURSIVE RepairSafe(_, _, _, _, _)
RepairSafe(text_seq, time_seq, i, n, offset) ==
    /\ Len(text_seq) = Len(time_seq) + 1
    /\ Len(time_seq) >= 1
    /\ i < n =>
          LET at == i - offset
          IN  /\ at >= 0
              /\ at > 0 => /\ at + 1 <= Len(time_seq)
                           /\ at + 2 <= Len(text_seq)
              /\ IF at > 0 /\ ~(time_seq[at] < time_seq[at + 1])
                 THEN RepairSafe(RemoveAt([text_seq EXCEPT ![at + 1] = @ \o text_seq[at + 2]],
                                          at + 2),
                                 RemoveAt(time_seq, at + 1), i + 1, n, offset + 1)
                 ELSE RepairSafe(text_seq, time_seq, i + 1, n, offset)

\* C29: parse_line returns None or a word list that is not empty and
\* raises no LyricsParserError, whatever the line; on a line with time
\* tags its repair loop keeps text_seq one longer than time_seq, time_seq
\* not empty, and stays within both
C29_ParseLineTotal ==
    pc = "parse_line" =>
        /\ ret.kind \in {"None", "Words"}
        /\ ret.kind = "Words" => ret.words # <<>>
        /\ ret.kind = "None" => ret.words = <<>>
        /\ TagPos(arg) # {} =>
              LET seq == split_to_sequence(arg)
              IN  /\ Len(seq) = 2 * Cardinality(TagPos(arg)) + 1
                  /\ RepairSafe(SelectTexts(seq), SelectTimes(seq), 0,
                                Len(SelectTimes(seq)), 0)

\* a line of four tags and nothing else, three of them out of order, gave
\* the one empty word that starts at the first tag
C29_Witness ==
    /\ pc = "parse_line"
    /\ Len(arg) = 4
    /\ TagPos(arg) = 1..4
    /\ \A p \in 2..4 : TimeAt(arg, p) <= TimeAt(arg, 1)
    /\ ret = Words(<< LyricWord(<<>>, TimeAt(arg, 1), NULL) >>)

\* the number of tags in a text, whatever their fields
TagCount(s) == Cardinality({p \in 1..Len(s) : s[p].k \in {"A", "B"}})

\* C30: in a word list parse_line returns for a line with a time tag,
\* each word ends where the next starts, at a time that is not null; only
\* the first word may have no start and only the last no end; so
\* construct_line writes no start tag for a word after the first
C30_Contiguous ==
    (pc = "parse_line" /\ ret.kind = "Words" /\ TagPos(arg) # {}) =>
        LET ws == ret.words
            n == Len(ws)
        IN  /\ \A i \in 1..(n - 1) :
                  /\ ws[i].end # NULL
                  /\ ws[i].end = ws[i + 1].start
            /\ \A i \in 2..n : ~StartTagged(ws, i)
            /\ TagCount(construct_line(ws))
                  = (n - 1) + (IF ws[1].start # NULL THEN 1 ELSE 0)
                            + (IF ws[n].end # NULL THEN 1 ELSE 0)

\* three words were returned, the first without start, the last without
\* end, and construct_line writes them with the two tags between them
C30_Witness ==
    /\ pc = "parse_line"
    /\ ret.kind = "Words"
    /\ Len(ret.words) = 3
    /\ ret.words[1].start = NULL
    /\ ret.words[3].end = NULL
    /\ \A i \in 1..3 : ret.words[i].content # <<>>
    /\ TagCount(construct_line(ret.words)) = 2
    /\ Len(construct_line(ret.words)) = 5
====
